---- MODULE Spec2Model ----
(***************************************************************************)
(* Model of FinancialAnalyzer (src/src/FinancialAnalyzer.py), Transaction *)
(* (src/src/transaction.py), add_category (src/src/data_structure.py),     *)
(* Account and CheckingAccount (src/src/account.py) and                    *)
(* InvestmentPortfolio (src/src/portfolio.py).  Each has its own           *)
(* specification; the variables of the others stay unused in it.           *)
(*                                                                         *)
(* Numbers.  A NumPy float is modelled by an exact extended rational       *)
(* <<n, d>> in lowest terms with d >= 0: d > 0 is the finite value n/d,    *)
(* <<0, 0>> is NaN and <<1, 0>>, <<-1, 0>> are +inf and -inf.  Arithmetic  *)
(* is exact: the rounding of IEEE doubles is not modelled, so "equal"      *)
(* below means equal as real numbers.  A square root (np.std) is the       *)
(* surd [c |-> q, r |-> k], standing for q * sqrt(k) with k a squarefree   *)
(* positive integer, which is exact as well.                               *)
(***************************************************************************)
EXTENDS Integers, Sequences, FiniteSets, TLC

----------------------------------------------------------------------------
(* Bounds of the model *)

\* longest series held by the analyzer
MaxLen == 3
\* longest returns series passed to calculate_portfolio_metrics
MaxRet == 3
\* longest expense series of one category
MaxCatLen == 2

----------------------------------------------------------------------------
(* Exact extended rationals *)

Abs(n) == IF n < 0 THEN -n ELSE n

Sign(n) == IF n < 0 THEN -1 ELSE IF n > 0 THEN 1 ELSE 0

RECURSIVE GCD(_, _)
GCD(a, b) == IF b = 0 THEN a ELSE GCD(b, a % b)

Norm(n, d) ==
    IF d = 0 THEN <<Sign(n), 0>>
    ELSE LET s == IF d < 0 THEN -1 ELSE 1
             g == GCD(Abs(n), Abs(d))
         IN  <<(s * n) \div g, (s * d) \div g>>

Zero == <<0, 1>>
One == <<1, 1>>
NaN == <<0, 0>>

Int2F(i) == <<i, 1>>

IsFinite(x) == x[2] # 0

IsNaN(x) == x = NaN

Add(x, y) ==
    IF x[2] # 0 /\ y[2] # 0 THEN Norm(x[1] * y[2] + y[1] * x[2], x[2] * y[2])
    ELSE IF x[2] = 0 /\ y[2] = 0 THEN (IF x[1] = y[1] THEN x ELSE NaN)
    ELSE IF x[2] = 0 THEN x ELSE y

Neg(x) == <<-x[1], x[2]>>

Sub(x, y) == Add(x, Neg(y))

Mul(x, y) == Norm(x[1] * y[1], x[2] * y[2])

Recip(y) ==
    IF y[1] > 0 THEN <<y[2], y[1]>>
    ELSE IF y[1] < 0 THEN <<-y[2], -y[1]>>
    ELSE IF y[2] = 0 THEN NaN ELSE <<1, 0>>

Div(x, y) == Mul(x, Recip(y))

\* x < y and x <= y; every comparison with NaN is false
Lt(x, y) == ~IsNaN(x) /\ ~IsNaN(y) /\ x # y /\
            IF x[2] # 0 /\ y[2] # 0 THEN x[1] * y[2] < y[1] * x[2]
            ELSE IF x[2] = 0 THEN x[1] < 0 ELSE y[1] > 0

Le(x, y) == ~IsNaN(x) /\ ~IsNaN(y) /\ (x = y \/ Lt(x, y))

----------------------------------------------------------------------------
(* Surds: c * sqrt(r) *)

SurdZero == [c |-> Zero, r |-> 1]

\* the largest k with k*k dividing m (m >= 1)
SquarePart(m) ==
    CHOOSE k \in 1..m : /\ m % (k * k) = 0
                        /\ \A j \in (k + 1)..m : m % (j * j) # 0

\* np.sqrt of a non-negative rational n/d = sqrt(n*d)/d
Sqrt(x) ==
    IF x[2] = 0 THEN [c |-> (IF x[1] > 0 THEN x ELSE NaN), r |-> 1]
    ELSE IF x[1] < 0 THEN [c |-> NaN, r |-> 1]
    ELSE IF x[1] = 0 THEN SurdZero
    ELSE LET m == x[1] * x[2]
             k == SquarePart(m)
         IN  [c |-> Norm(k, x[2]), r |-> m \div (k * k)]

SurdOf(c, r) == IF IsFinite(c) /\ c # Zero THEN [c |-> c, r |-> r] ELSE [c |-> c, r |-> 1]

\* x / (c * sqrt(r)) = (x / (c * r)) * sqrt(r)
DivBySurd(x, v) == SurdOf(Div(x, Mul(v.c, Int2F(v.r))), v.r)

\* (c1 * sqrt(r)) * (c2 * sqrt(r)) = c1 * c2 * r, for surds of the same radicand
SurdProduct(u, v) == Mul(Mul(u.c, v.c), Int2F(v.r))

----------------------------------------------------------------------------
(* Inputs *)

\* element values of the series (as floats); they include the arithmetic
\* progressions -1, 0, 1 and 1, 0, -1
Values == {Int2F(-1), Int2F(0), Int2F(1)}

\* element values of the returns series and of the expense series
SmallValues == {Int2F(-1), Int2F(0), Int2F(1)}

SeqsUpTo(S, n) == UNION {[1..k -> S] : k \in 0..n}

SeriesSet == SeqsUpTo(Values, MaxLen)

ReturnsSet == SeqsUpTo(SmallValues, MaxRet)

\* the default risk_free_rate 0.02 and two others
RiskFreeRates == {<<1, 50>>, Zero, Int2F(-1)}

Categories == {"A", "B"}

\* a dict of category -> expense series: a function on a subset of Categories
SpendingSet == UNION {[K -> SeqsUpTo(SmallValues, MaxCatLen)] : K \in SUBSET Categories}

Budgets == {Int2F(-1), Zero, Int2F(3)}

WindowSizes == -1..(MaxLen + 2)

Periods == -2..2

----------------------------------------------------------------------------
(* NumPy and Python built-ins, computed exactly *)

RECURSIVE SumSeq(_)
SumSeq(s) == IF Len(s) = 0 THEN Zero ELSE Add(SumSeq(SubSeq(s, 1, Len(s) - 1)), s[Len(s)])

\* np.sum
NpSum(s) == SumSeq(s)

\* np.mean: the sum divided by the size; NaN for an empty array (0/0)
NpMean(s) == Div(SumSeq(s), Int2F(Len(s)))

\* np.std: sqrt(mean(abs(x - x.mean())**2)), the population standard deviation
NpVar(s) ==
    LET m == NpMean(s)
        sq == [i \in 1..Len(s) |-> Mul(Sub(s[i], m), Sub(s[i], m))]
    IN  NpMean(sq)

NpStd(s) == Sqrt(NpVar(s))

\* np.min, np.max of a non-empty array
NpMin(s) == CHOOSE x \in {s[i] : i \in 1..Len(s)} : \A j \in 1..Len(s) : Le(x, s[j])

NpMax(s) == CHOOSE x \in {s[i] : i \in 1..Len(s)} : \A j \in 1..Len(s) : Le(s[j], x)

RECURSIVE Insert(_, _)
Insert(x, s) ==
    IF Len(s) = 0 THEN <<x>>
    ELSE IF Le(x, s[1]) THEN <<x>> \o s
    ELSE <<s[1]>> \o Insert(x, Tail(s))

RECURSIVE Sorted(_)
Sorted(s) == IF Len(s) = 0 THEN <<>> ELSE Insert(s[1], Sorted(Tail(s)))

\* np.median of a non-empty array
NpMedian(s) ==
    LET a == Sorted(s)
        n == Len(s)
    IN  IF n % 2 = 1 THEN a[(n + 1) \div 2]
        ELSE Div(Add(a[n \div 2], a[n \div 2 + 1]), Int2F(2))

\* a percentile that takes the lower neighbour and does not interpolate
NpPercentileLower(s, q) ==
    LET a == Sorted(s)
        idx == Norm(q * (Len(s) - 1), 100)
    IN  a[idx[1] \div idx[2] + 1]

\* np.percentile(s, q), default 'linear' method, of a non-empty array:
\* virtual index q/100 * (N - 1) into the sorted array, interpolated
NpPercentile(s, q) ==
    LET a == Sorted(s)
        n == Len(s)
        idx == Norm(q * (n - 1), 100)
        lo == idx[1] \div idx[2]
        hi == IF lo + 1 > n - 1 THEN n - 1 ELSE lo + 1
        g == Sub(idx, Int2F(lo))
    IN  Add(a[lo + 1], Mul(g, Sub(a[hi + 1], a[lo + 1])))

\* np.ones(n), the division by n forgotten
UnitWeights(n) == [k \in 1..n |-> One]

\* np.ones(n) / n
UniformWeights(n) == [k \in 1..n |-> Div(One, Int2F(n))]

RECURSIVE DotRev(_, _, _, _)
\* sum over k = 1..m of a[i + k - 1] * v[m - k + 1]
DotRev(a, v, i, m) ==
    IF m = 0 THEN Zero
    ELSE Add(DotRev(a, Tail(v), i, m - 1), Mul(a[i + m - 1], v[1]))

\* np.convolve(a, v, mode='valid'): the operands are swapped when v is the
\* longer one, an empty operand is a ValueError, and only the positions where
\* the two overlap completely are returned
ConvolveValid(a, v) ==
    LET x == IF Len(v) > Len(a) THEN v ELSE a
        y == IF Len(v) > Len(a) THEN a ELSE v
    IN  IF Len(y) = 0
        THEN [kind |-> "raise", exc |-> "ValueError", msg |-> "cannot be empty"]
        ELSE [kind |-> "return",
              value |-> [i \in 1..(Len(x) - Len(y) + 1) |-> DotRev(x, y, i, Len(y))]]

\* np.polyfit(x, y, 1) with x = np.arange(len(y)): the least-squares line,
\* <<slope, intercept>>
Polyfit1(y) ==
    LET n == Len(y)
        sx == SumSeq([i \in 1..n |-> Int2F(i - 1)])
        sxx == SumSeq([i \in 1..n |-> Int2F((i - 1) * (i - 1))])
        sy == SumSeq(y)
        sxy == SumSeq([i \in 1..n |-> Mul(Int2F(i - 1), y[i])])
        slope == Div(Sub(Mul(Int2F(n), sxy), Mul(sx, sy)),
                     Sub(Mul(Int2F(n), sxx), Mul(sx, sx)))
        intercept == Div(Sub(sy, Mul(slope, sx)), Int2F(n))
    IN  <<slope, intercept>>

----------------------------------------------------------------------------
(* FinancialAnalyzer: each method as a function of self.data and its arguments *)

Return(v) == [kind |-> "return", value |-> v]

Raise(e, m) == [kind |-> "raise", exc |-> e, msg |-> m]

EmptyDict == [k \in {} |-> Zero]

\* a guard that lets window_size = 0 through
InvalidWindowSizeStrict(window_size, n) == window_size < 0 \/ window_size > n

\* window_size <= 0 or window_size > len(self.data)
InvalidWindowSize(window_size, n) == window_size <= 0 \/ window_size > n

calculate_moving_averages(self_data, window_size) ==
    IF InvalidWindowSize(window_size, Len(self_data))
    THEN Raise("ValueError", "Invalid window size.")
    ELSE ConvolveValid(self_data, UniformWeights(window_size))

analyze_spending_patterns(self_data) ==
    IF Len(self_data) = 0
    THEN Return([mean |-> Zero, std_dev |-> SurdZero, min |-> Zero, max |-> Zero,
                 median |-> Zero])
    ELSE Return([mean |-> NpMean(self_data),
                 std_dev |-> NpStd(self_data),
                 min |-> NpMin(self_data),
                 max |-> NpMax(self_data),
                 median |-> NpMedian(self_data),
                 q25 |-> NpPercentile(self_data, 25),
                 q75 |-> NpPercentile(self_data, 75)])

\* the last element only when there are two or more
LastOrZeroOffByOne(self_data) == IF Len(self_data) > 1 THEN self_data[Len(self_data)] ELSE Zero

\* self.data[-1] if len(self.data) > 0 else 0.0
LastOrZero(self_data) == IF Len(self_data) > 0 THEN self_data[Len(self_data)] ELSE Zero

\* the projected position with the "- 1" forgotten
FutureXOffByOne(n, num_periods) == n + num_periods

\* future_x = len(self.data) + num_periods - 1
FutureX(n, num_periods) == n + num_periods - 1

project_future_balance(self_data, num_periods) ==
    IF Len(self_data) < 2
    THEN Return(LastOrZero(self_data))
    ELSE LET fit == Polyfit1(self_data)
             slope == fit[1]
             intercept == fit[2]
             future_x == FutureX(Len(self_data), num_periods)
         IN  Return(Add(Mul(slope, Int2F(future_x)), intercept))

\* an emptiness test that never succeeds
EmptyReturnsNever(returns_data) == Len(returns_data) < 0

\* len(returns_data) == 0
EmptyReturns(returns_data) == Len(returns_data) = 0

\* the ratio without the volatility == 0 test
SharpeRatioUnguarded(returns_data, risk_free_rate, volatility) ==
    DivBySurd(Sub(NpMean(returns_data), risk_free_rate), volatility)

\* sharpe_ratio: 0.0 if volatility == 0, else (mean - risk_free_rate) / volatility
SharpeRatio(returns_data, risk_free_rate, volatility) ==
    IF volatility.c = Zero
    THEN SurdZero
    ELSE DivBySurd(Sub(NpMean(returns_data), risk_free_rate), volatility)

calculate_portfolio_metrics(returns_data, risk_free_rate) ==
    IF EmptyReturns(returns_data)
    THEN Return([total_return |-> Zero, volatility |-> SurdZero, sharpe_ratio |-> SurdZero])
    ELSE LET total_return == NpSum(returns_data)
             volatility == NpStd(returns_data)
         IN  Return([total_return |-> total_return,
                     volatility |-> volatility,
                     sharpe_ratio |-> SharpeRatio(returns_data, risk_free_rate, volatility)])

RECURSIVE SumValues(_, _)
\* sum(d.values()) over the keys K of the dict d
SumValues(d, K) ==
    IF K = {} THEN Zero
    ELSE LET k == CHOOSE x \in K : TRUE
         IN  Add(SumValues(d, K \ {k}), d[k])

\* a guard with total_budget < 0 in place of <= 0
NothingToAllocateStrict(spending_data, total_budget) ==
    DOMAIN spending_data = {} \/ Lt(total_budget, Zero)

\* not spending_data or total_budget <= 0
NothingToAllocate(spending_data, total_budget) ==
    DOMAIN spending_data = {} \/ Le(total_budget, Zero)

\* a test of the total that never succeeds
ZeroTotalNever(total_mean_spending) == FALSE

\* total_mean_spending == 0
ZeroTotal(total_mean_spending) == total_mean_spending = Zero

\* an allocation that leaves out the categories of mean zero
ProportionalAllocationSkipZero(category_means, total_mean_spending, total_budget) ==
    [cat \in {c \in DOMAIN category_means : category_means[c] # Zero} |->
        Mul(Div(category_means[cat], total_mean_spending), total_budget)]

\* {cat: (mean_val / total_mean_spending) * total_budget for cat, mean_val in ...}
ProportionalAllocation(category_means, total_mean_spending, total_budget) ==
    [cat \in DOMAIN category_means |->
        Mul(Div(category_means[cat], total_mean_spending), total_budget)]

\* {cat: total_budget / len(spending_data) for cat in spending_data}
EqualDivision(spending_data, total_budget) ==
    [cat \in DOMAIN spending_data |->
        Div(total_budget, Int2F(Cardinality(DOMAIN spending_data)))]

optimize_budget_allocation(spending_data, total_budget) ==
    IF NothingToAllocate(spending_data, total_budget)
    THEN Return(EmptyDict)
    ELSE LET category_means == [cat \in DOMAIN spending_data |-> NpMean(spending_data[cat])]
             total_mean_spending == SumValues(category_means, DOMAIN category_means)
         IN  IF ZeroTotal(total_mean_spending)
             THEN Return(EqualDivision(spending_data, total_budget))
             ELSE Return(ProportionalAllocation(category_means, total_mean_spending,
                                                total_budget))

----------------------------------------------------------------------------
(* The analyzer and its caller *)

VARIABLES
    data,      \* self.data, set by __init__
    data0,     \* the array the analyzer was constructed with
    pc,        \* "idle": no call outstanding; "returned": a call has ended;
               \* "repeated": the same call has been made a second time
    call,      \* the method last called and its arguments
    result,    \* what that call returned or raised
    first      \* at "repeated": what the first of the two calls returned or raised

analyzerVars == <<data, data0, pc, call, result, first>>

\* the other classes and functions of the repository, modelled further down
VARIABLES
    t1, t1_dict, t3, txn_pc,
    categories, cat_call, cat_ret,
    cls, balance, initial_balance, overdraft_limit, transaction_list, acct_call, acct_ret,
    holdings, cash_balance, pf_call, pf_ret

transactionVars == <<t1, t1_dict, t3, txn_pc>>

categoryVars == <<categories, cat_call, cat_ret>>

accountVars == <<cls, balance, initial_balance, overdraft_limit, transaction_list,
                 acct_call, acct_ret>>

portfolioVars == <<holdings, cash_balance, pf_call, pf_ret>>

vars == <<analyzerVars, transactionVars, categoryVars, accountVars, portfolioVars>>

otherThanAnalyzer == <<transactionVars, categoryVars, accountVars, portfolioVars>>

\* no object of the class or module exists
Unused == [state |-> "unused"]

TransactionUnused == t1 = Unused /\ t1_dict = Unused /\ t3 = Unused /\ txn_pc = "unused"

CategoryUnused == categories = Unused /\ cat_call = Unused /\ cat_ret = Unused

AccountUnused ==
    /\ cls = "unused"
    /\ balance = Unused
    /\ initial_balance = Unused
    /\ overdraft_limit = Unused
    /\ transaction_list = Unused
    /\ acct_call = Unused
    /\ acct_ret = Unused

PortfolioUnused ==
    /\ holdings = Unused
    /\ cash_balance = Unused
    /\ pf_call = Unused
    /\ pf_ret = Unused

AnalyzerUnused ==
    /\ data = Unused
    /\ data0 = Unused
    /\ pc = "unused"
    /\ call = Unused
    /\ result = Unused
    /\ first = Unused

\* self.data when a method returns: no method assigns to it or writes into it
DataSortedInPlace(self_data) == Sorted(self_data)

DataAfterCall(self_data) == self_data

\* the method named by a call record, applied to its arguments
Invoke(c, self_data) ==
    CASE c.op = "calculate_moving_averages" ->
            calculate_moving_averages(self_data, c.window_size)
      [] c.op = "analyze_spending_patterns" ->
            analyze_spending_patterns(self_data)
      [] c.op = "project_future_balance" ->
            project_future_balance(self_data, c.num_periods)
      [] c.op = "calculate_portfolio_metrics" ->
            calculate_portfolio_metrics(c.returns_data, c.risk_free_rate)
      [] c.op = "optimize_budget_allocation" ->
            optimize_budget_allocation(c.spending_data, c.total_budget)

NoCall == [op |-> "none"]

None == [kind |-> "none"]

\* FinancialAnalyzer(data) with a 1D array
Init ==
    /\ data \in SeriesSet
    /\ data0 = data
    /\ pc = "idle"
    /\ call = NoCall
    /\ result = None
    /\ first = None
    /\ TransactionUnused /\ CategoryUnused /\ AccountUnused /\ PortfolioUnused

CallCalculateMovingAverages ==
    /\ pc = "idle"
    /\ \E window_size \in WindowSizes :
          /\ call' = [op |-> "calculate_moving_averages", window_size |-> window_size]
          /\ result' = calculate_moving_averages(data, window_size)
    /\ pc' = "returned"
    /\ data' = DataAfterCall(data)
    /\ UNCHANGED <<data0, first>>
    /\ UNCHANGED otherThanAnalyzer

CallAnalyzeSpendingPatterns ==
    /\ pc = "idle"
    /\ call' = [op |-> "analyze_spending_patterns"]
    /\ result' = analyze_spending_patterns(data)
    /\ pc' = "returned"
    /\ data' = DataAfterCall(data)
    /\ UNCHANGED <<data0, first>>
    /\ UNCHANGED otherThanAnalyzer

CallProjectFutureBalance ==
    /\ pc = "idle"
    /\ \E num_periods \in Periods :
          /\ call' = [op |-> "project_future_balance", num_periods |-> num_periods]
          /\ result' = project_future_balance(data, num_periods)
    /\ pc' = "returned"
    /\ data' = DataAfterCall(data)
    /\ UNCHANGED <<data0, first>>
    /\ UNCHANGED otherThanAnalyzer

CallCalculatePortfolioMetrics ==
    /\ pc = "idle"
    /\ \E returns_data \in ReturnsSet, risk_free_rate \in RiskFreeRates :
          /\ call' = [op |-> "calculate_portfolio_metrics",
                      returns_data |-> returns_data, risk_free_rate |-> risk_free_rate]
          /\ result' = calculate_portfolio_metrics(returns_data, risk_free_rate)
    /\ pc' = "returned"
    /\ data' = DataAfterCall(data)
    /\ UNCHANGED <<data0, first>>
    /\ UNCHANGED otherThanAnalyzer

CallOptimizeBudgetAllocation ==
    /\ pc = "idle"
    /\ \E spending_data \in SpendingSet, total_budget \in Budgets :
          /\ call' = [op |-> "optimize_budget_allocation",
                      spending_data |-> spending_data, total_budget |-> total_budget]
          /\ result' = optimize_budget_allocation(spending_data, total_budget)
    /\ pc' = "returned"
    /\ data' = DataAfterCall(data)
    /\ UNCHANGED <<data0, first>>
    /\ UNCHANGED otherThanAnalyzer

\* the caller takes the result; the analyzer is ready for the next call
TakeResult ==
    /\ pc \in {"returned", "repeated"}
    /\ pc' = "idle"
    /\ call' = NoCall
    /\ result' = None
    /\ first' = None
    /\ UNCHANGED <<data, data0>>
    /\ UNCHANGED otherThanAnalyzer

\* the caller makes the call it has just made once more, with the same arguments
CallAgain ==
    /\ pc = "returned"
    /\ first' = result
    /\ result' = Invoke(call, data)
    /\ pc' = "repeated"
    /\ data' = DataAfterCall(data)
    /\ UNCHANGED <<data0, call>>
    /\ UNCHANGED otherThanAnalyzer

Next ==
    \/ CallCalculateMovingAverages
    \/ CallAnalyzeSpendingPatterns
    \/ CallProjectFutureBalance
    \/ CallCalculatePortfolioMetrics
    \/ CallOptimizeBudgetAllocation
    \/ CallAgain
    \/ TakeResult

Spec == Init /\ [][Next]_vars

----------------------------------------------------------------------------
(* Properties *)

Returned(op) == pc = "returned" /\ call.op = op

\* the arithmetic mean of s[i .. i+w-1] (0-based i): the window's sum over w
WindowMean(s, i, w) == Div(SumSeq(SubSeq(s, i + 1, i + w)), Int2F(w))

\* C1: for a non-empty series and 1 <= w <= len, calculate_moving_averages(w)
\* returns len - w + 1 elements, the i-th being the mean of the i-th window.
C1_MovingAverages ==
    (/\ Returned("calculate_moving_averages")
     /\ Len(data) > 0
     /\ call.window_size \in 1..Len(data))
    => /\ result.kind = "return"
       /\ DOMAIN result.value = 1..(Len(data) - call.window_size + 1)
       /\ \A i \in 0..(Len(data) - call.window_size) :
             result.value[i + 1] = WindowMean(data, i, call.window_size)

C1_Witness ==
    /\ Returned("calculate_moving_averages")
    /\ Len(data) = 3
    /\ call.window_size = 2
    /\ result.kind = "return"
    /\ Len(result.value) = 2
    /\ result.value[1] # result.value[2]

\* C2: calculate_moving_averages(w) fails with the invalid-window-size error and
\* returns no series for every w <= 0 and every w > len, so for every w when
\* the series is empty.
C2_InvalidWindowRaises ==
    (/\ Returned("calculate_moving_averages")
     /\ (call.window_size <= 0 \/ call.window_size > Len(data)))
    => result = Raise("ValueError", "Invalid window size.")

C2_Witness ==
    /\ Returned("calculate_moving_averages")
    /\ data = <<>>
    /\ call.window_size = 1
    /\ result.kind = "raise"

SummaryFields == {"mean", "std_dev", "min", "max", "median", "q25", "q75"}

\* C3: for an empty series the summary of analyze_spending_patterns has all
\* seven fields mean, std_dev, min, max, median, q25, q75, each 0.0.
C3_EmptySummaryComplete ==
    (Returned("analyze_spending_patterns") /\ data = <<>>)
    => /\ result.kind = "return"
       /\ DOMAIN result.value = SummaryFields
       /\ \A f \in DOMAIN result.value :
             result.value[f] = (IF f = "std_dev" THEN SurdZero ELSE Zero)

\* C4: for every non-empty category map and total budget > 0, the amounts
\* returned by optimize_budget_allocation sum to the total budget.
C4_AllocationSumsToBudget ==
    (/\ Returned("optimize_budget_allocation")
     /\ DOMAIN call.spending_data # {}
     /\ Lt(Zero, call.total_budget))
    => /\ result.kind = "return"
       /\ SumValues(result.value, DOMAIN result.value) = call.total_budget

\* C5 as stated: the result of optimize_budget_allocation has the key set of
\* the input map for every input, and is empty only when the input map is.
C5_SameKeysAlways ==
    Returned("optimize_budget_allocation")
    => /\ result.kind = "return"
       /\ DOMAIN result.value = DOMAIN call.spending_data

\* C5 amended: with total budget > 0 the result has the key set of the input
\* map; the result is empty exactly when the input map is empty or the total
\* budget is <= 0.
C5_SameKeysWhenBudgetPositive ==
    Returned("optimize_budget_allocation")
    => /\ result.kind = "return"
       /\ Lt(Zero, call.total_budget)
             => DOMAIN result.value = DOMAIN call.spending_data
       /\ DOMAIN result.value = {}
             <=> (DOMAIN call.spending_data = {} \/ Le(call.total_budget, Zero))

C5_Witness ==
    /\ Returned("optimize_budget_allocation")
    /\ Lt(Zero, call.total_budget)
    /\ DOMAIN call.spending_data = Categories
    /\ call.spending_data["A"] = <<Zero>>
    /\ call.spending_data["B"] = <<One>>
    /\ DOMAIN result.value = Categories

\* C6: optimize_budget_allocation returns an empty mapping, with no error, when
\* the category map is empty or the total budget is <= 0, whatever the series.
C6_NothingToAllocateIsEmpty ==
    (/\ Returned("optimize_budget_allocation")
     /\ (DOMAIN call.spending_data = {} \/ Le(call.total_budget, Zero)))
    => result = Return(EmptyDict)

C6_Witness ==
    /\ Returned("optimize_budget_allocation")
    /\ DOMAIN call.spending_data = Categories
    /\ call.spending_data["A"] = <<>>
    /\ call.total_budget = Zero
    /\ result = Return(EmptyDict)

\* the per-category means, summed
SumOfMeans(spending_data) ==
    SumValues([cat \in DOMAIN spending_data |->
                  Div(SumSeq(spending_data[cat]), Int2F(Len(spending_data[cat])))],
              DOMAIN spending_data)

\* C7: for a non-empty map and total budget > 0, when the per-category means
\* sum to exactly 0, every category gets total_budget / number_of_categories
\* and nothing is divided by the zero sum.
C7_EqualDivisionOnZeroTotal ==
    (/\ Returned("optimize_budget_allocation")
     /\ DOMAIN call.spending_data # {}
     /\ Lt(Zero, call.total_budget)
     /\ SumOfMeans(call.spending_data) = Zero)
    => /\ result.kind = "return"
       /\ DOMAIN result.value = DOMAIN call.spending_data
       /\ \A cat \in DOMAIN result.value :
             /\ IsFinite(result.value[cat])
             /\ result.value[cat] =
                   Div(call.total_budget, Int2F(Cardinality(DOMAIN call.spending_data)))

C7_Witness ==
    /\ Returned("optimize_budget_allocation")
    /\ DOMAIN call.spending_data = Categories
    /\ call.spending_data["A"] = <<One>>
    /\ call.spending_data["B"] = <<Int2F(-1)>>
    /\ call.total_budget = Int2F(3)
    /\ result.value["A"] = <<3, 2>>
    /\ result.value["B"] = <<3, 2>>

\* the population variance of s as mean(x^2) - mean(x)^2
PopulationVariance(s) ==
    LET m == Div(SumSeq(s), Int2F(Len(s)))
        m2 == Div(SumSeq([i \in 1..Len(s) |-> Mul(s[i], s[i])]), Int2F(Len(s)))
    IN  Sub(m2, Mul(m, m))

AllEqual(s) == \A i, j \in 1..Len(s) : s[i] = s[j]

C9_EmptyReturnsZeroRecord ==
    (Returned("calculate_portfolio_metrics") /\ call.returns_data = <<>>)
    => result = Return([total_return |-> Zero, volatility |-> SurdZero,
                        sharpe_ratio |-> SurdZero])

C9_Witness ==
    /\ Returned("calculate_portfolio_metrics")
    /\ call.returns_data = <<>>
    /\ call.risk_free_rate = Int2F(-1)
    /\ result.kind = "return"
    /\ result.value.sharpe_ratio = SurdZero

\* C10: for every integer num_periods, project_future_balance returns 0.0 for
\* an empty series and the single element for a series of one element, with no
\* error.
C10_ShortSeriesProjection ==
    (Returned("project_future_balance") /\ Len(data) < 2)
    => result = Return(IF Len(data) = 0 THEN Zero ELSE data[1])

C10_Witness ==
    /\ Returned("project_future_balance")
    /\ data = <<Int2F(-1)>>
    /\ call.num_periods = -2
    /\ result = Return(Int2F(-1))

\* s[i] = a + b*i for all i (0-based), with a = s[0] and b = s[1] - s[0]
IsLinear(s) ==
    \A i \in 1..Len(s) : s[i] = Add(s[1], Mul(Sub(s[2], s[1]), Int2F(i - 1)))

\* C11: for a perfectly linear series S[i] = a + b*i of length N >= 2 and every
\* integer num_periods, project_future_balance returns a + b*(N + num_periods - 1);
\* num_periods = 0 gives the last observed value.
C11_LinearProjection ==
    (/\ Returned("project_future_balance")
     /\ Len(data) >= 2
     /\ IsLinear(data))
    => /\ result = Return(Add(data[1], Mul(Sub(data[2], data[1]),
                                          Int2F(Len(data) + call.num_periods - 1))))
       /\ call.num_periods = 0 => result = Return(data[Len(data)])

C11_Witness ==
    /\ Returned("project_future_balance")
    /\ data = <<Int2F(1), Zero, Int2F(-1)>>
    /\ call.num_periods = 1
    /\ result = Return(Int2F(-2))

IsNonDecreasing(a) == \A i \in 1..(Len(a) - 1) : Le(a[i], a[i + 1])

Count(s, x) == Cardinality({i \in 1..Len(s) : s[i] = x})

\* the series s in non-decreasing order
SortedSeries(s) ==
    CHOOSE a \in [1..Len(s) -> {s[i] : i \in 1..Len(s)}] :
        /\ IsNonDecreasing(a)
        /\ \A x \in {s[i] : i \in 1..Len(s)} : Count(a, x) = Count(s, x)

\* the linear-interpolation percentile p of s: index = p/100 * (N - 1) into the
\* sorted series, the element there when the index is an integer, else the
\* interpolation between its two neighbours
LinearPercentile(s, p) ==
    LET a == SortedSeries(s)
        k == p * (Len(s) - 1)
        lo == k \div 100
    IN  IF k % 100 = 0 THEN a[lo + 1]
        ELSE Add(Mul(Norm(100 - (k % 100), 100), a[lo + 1]),
                 Mul(Norm(k % 100, 100), a[lo + 2]))

\* C12: for a non-empty series q25 and q75 are the linear-interpolation
\* percentiles 25 and 75 of the sorted series, and
\* min <= q25 <= median <= q75 <= max.
C12_Quartiles ==
    (Returned("analyze_spending_patterns") /\ Len(data) > 0)
    => /\ result.kind = "return"
       /\ result.value.q25 = LinearPercentile(data, 25)
       /\ result.value.q75 = LinearPercentile(data, 75)
       /\ Le(result.value.min, result.value.q25)
       /\ Le(result.value.q25, result.value.median)
       /\ Le(result.value.median, result.value.q75)
       /\ Le(result.value.q75, result.value.max)

C12_Witness ==
    /\ Returned("analyze_spending_patterns")
    /\ data = <<Int2F(1), Int2F(-1), Zero>>
    /\ result.value.q25 = <<-1, 2>>
    /\ result.value.q75 = <<1, 2>>

----------------------------------------------------------------------------
(* Transaction (src/src/transaction.py) *)

\* a datetime: given to the constructor, never validated
DateTimes ==
    [year : {2023, 2025}, month : {1, 8}, day : {9, 31}, hour : {0, 10},
     minute : {30}, second : {0, 59}, microsecond : {0, 5000, 123456}]

\* 55.75, 25.0 and two amounts the constructor rejects
Amounts == {<<223, 4>>, Int2F(25), Zero, Int2F(-100)}

CategoryNames == {"Groceries", "  ", ""}

MerchantNames == {"Whole Foods", ""}

DescriptionTexts == {"Weekly groceries"}

AccountTypeNames == {"Checking", " "}

\* the values uuid.uuid4() can give
Uuids == {"uuid-1", "uuid-2", "uuid-3"}

\* str.strip() on the strings above
Strip(str) == IF str \in {" ", "  "} THEN "" ELSE str

DigitChars == <<"0", "1", "2", "3", "4", "5", "6", "7", "8", "9">>

RECURSIVE Pow10(_)
Pow10(k) == IF k = 0 THEN 1 ELSE 10 * Pow10(k - 1)

\* n as width decimal digits, zero-padded: the %04d, %02d, %06d of isoformat
Digits(n, width) ==
    [i \in 1..width |-> DigitChars[((n \div Pow10(width - i)) % 10) + 1]]

DigitValue(ch) == (CHOOSE i \in 1..10 : DigitChars[i] = ch) - 1

RECURSIVE ParseInt(_)
ParseInt(str) ==
    IF Len(str) = 0 THEN 0
    ELSE 10 * ParseInt(SubSeq(str, 1, Len(str) - 1)) + DigitValue(str[Len(str)])

\* datetime.isoformat(): YYYY-MM-DDTHH:MM:SS, and .ffffff when microsecond != 0;
\* a string is the sequence of its characters
isoformat(dt) ==
    Digits(dt.year, 4) \o <<"-">> \o Digits(dt.month, 2) \o <<"-">> \o Digits(dt.day, 2)
    \o <<"T">> \o Digits(dt.hour, 2) \o <<":">> \o Digits(dt.minute, 2)
    \o <<":">> \o Digits(dt.second, 2)
    \o (IF dt.microsecond # 0 THEN <<".">> \o Digits(dt.microsecond, 6) ELSE <<>>)

\* datetime.fromisoformat() of such a string
fromisoformat(str) ==
    [year |-> ParseInt(SubSeq(str, 1, 4)),
     month |-> ParseInt(SubSeq(str, 6, 7)),
     day |-> ParseInt(SubSeq(str, 9, 10)),
     hour |-> ParseInt(SubSeq(str, 12, 13)),
     minute |-> ParseInt(SubSeq(str, 15, 16)),
     second |-> ParseInt(SubSeq(str, 18, 19)),
     microsecond |-> IF Len(str) > 19 THEN ParseInt(SubSeq(str, 21, 26)) ELSE 0]

\* Transaction.__init__, with the uuid it draws
Transaction(uuid, date, amount, category, merchant, description, account_type) ==
    IF ~Lt(Zero, amount)
    THEN Raise("ValueError", "Transaction amount must be a positive number.")
    ELSE IF Strip(category) = "" THEN Raise("ValueError", "'category' cannot be empty.")
    ELSE IF Strip(merchant) = "" THEN Raise("ValueError", "'merchant' cannot be empty.")
    ELSE IF Strip(description) = "" THEN Raise("ValueError", "'description' cannot be empty.")
    ELSE IF Strip(account_type) = ""
         THEN Raise("ValueError", "'account_type' cannot be empty.")
    ELSE Return([transaction_id |-> uuid,
                 date |-> date,
                 amount |-> amount,
                 category |-> category,
                 merchant |-> merchant,
                 description |-> description,
                 account_type |-> account_type])

\* Transaction.__eq__: equal when the IDs match
TransactionEq(self, other) == self.transaction_id = other.transaction_id

to_dict(self) ==
    [transaction_id |-> self.transaction_id,
     date |-> isoformat(self.date),
     amount |-> self.amount,
     category |-> self.category,
     merchant |-> self.merchant,
     description |-> self.description,
     account_type |-> self.account_type]

\* from_dict without the assignment of data['transaction_id']
from_dict_fresh_id(d, uuid) ==
    Transaction(uuid, fromisoformat(d.date), d.amount, d.category, d.merchant,
                d.description, d.account_type)

\* Transaction.from_dict: the constructor draws a uuid, which is then replaced
from_dict(d, uuid) ==
    LET transaction == Transaction(uuid, fromisoformat(d.date), d.amount, d.category,
                                   d.merchant, d.description, d.account_type)
    IN  IF transaction.kind = "raise" THEN transaction
        ELSE Return([transaction.value EXCEPT !.transaction_id = d.transaction_id])

otherThanTransaction == <<analyzerVars, categoryVars, accountVars, portfolioVars>>

InitTransaction ==
    /\ t1 = None
    /\ t1_dict = None
    /\ t3 = None
    /\ txn_pc = "start"
    /\ AnalyzerUnused /\ CategoryUnused /\ AccountUnused /\ PortfolioUnused

\* t1 = Transaction(...)
Construct ==
    /\ txn_pc = "start"
    /\ \E uuid \in Uuids, date \in DateTimes, amount \in Amounts,
          category \in CategoryNames, merchant \in MerchantNames,
          description \in DescriptionTexts, account_type \in AccountTypeNames :
          /\ t1' = Transaction(uuid, date, amount, category, merchant, description,
                               account_type)
          /\ txn_pc' = IF t1'.kind = "raise" THEN "failed" ELSE "constructed"
    /\ UNCHANGED <<t1_dict, t3>>
    /\ UNCHANGED otherThanTransaction

\* t1_dict = t1.to_dict()
ToDict ==
    /\ txn_pc \in {"constructed", "deserialized"}
    /\ t1_dict' = to_dict(t1.value)
    /\ t3' = None
    /\ txn_pc' = "serialized"
    /\ UNCHANGED t1
    /\ UNCHANGED otherThanTransaction

\* t3 = Transaction.from_dict(t1_dict); data['date'] is replaced in the dict
FromDict ==
    /\ txn_pc = "serialized"
    /\ \E uuid \in Uuids \ {t1.value.transaction_id} :
          t3' = from_dict(t1_dict, uuid)
    /\ t1_dict' = [t1_dict EXCEPT !.date = fromisoformat(t1_dict.date)]
    /\ txn_pc' = "deserialized"
    /\ UNCHANGED t1
    /\ UNCHANGED otherThanTransaction

NextTransaction ==
    \/ Construct
    \/ ToDict
    \/ FromDict

SpecTransaction == InitTransaction /\ [][NextTransaction]_vars

\* C14: for every valid Transaction t, from_dict(t.to_dict()) is equal to t (the
\* same transaction_id, not a new one) and has the same date, amount, category,
\* merchant, description and account_type.
C14_RoundTrip ==
    txn_pc = "deserialized"
    => /\ t3.kind = "return"
       /\ TransactionEq(t1.value, t3.value)
       /\ t3.value.transaction_id = t1.value.transaction_id
       /\ t3.value.date = t1.value.date
       /\ t3.value.amount = t1.value.amount
       /\ t3.value.category = t1.value.category
       /\ t3.value.merchant = t1.value.merchant
       /\ t3.value.description = t1.value.description
       /\ t3.value.account_type = t1.value.account_type

C14_Witness ==
    /\ txn_pc = "deserialized"
    /\ t1.value.date.microsecond = 5000
    /\ t1.value.date.hour = 0
    /\ t1.value.amount = <<223, 4>>
    /\ t3.kind = "return"
    /\ t3.value = t1.value

----------------------------------------------------------------------------
(* add_category (src/src/data_structure.py) *)

\* longest list of categories add_category is first called on
MaxCategories == 2

CategoryLabels == {"Groceries", "Rent", "Shopping", "Food"}

\* a function that ends without a return statement returns None
ReturnNone == [kind |-> "return_none"]

InList(x, list) == \E i \in 1..Len(list) : list[i] = x

\* add_category: the list after the call and what the call returns; the return
\* statement is inside the if
add_category(list, new_category) ==
    IF ~InList(new_category, list)
    THEN [categories |-> Append(list, new_category),
          returned |-> Return(Append(list, new_category))]
    ELSE [categories |-> list, returned |-> ReturnNone]

otherThanCategory == <<analyzerVars, transactionVars, accountVars, portfolioVars>>

InitCategory ==
    /\ categories \in SeqsUpTo(CategoryLabels, MaxCategories)
    /\ cat_call = None
    /\ cat_ret = None
    /\ AnalyzerUnused /\ TransactionUnused /\ AccountUnused /\ PortfolioUnused

\* add_category(categories, new_category) on the list object
AddCategory ==
    /\ \E new_category \in CategoryLabels :
          LET out == add_category(categories, new_category)
          IN  /\ cat_call' = [new_category |-> new_category, before |-> categories]
              /\ categories' = out.categories
              /\ cat_ret' = out.returned
    /\ UNCHANGED otherThanCategory

NextCategory == AddCategory

SpecCategory == InitCategory /\ [][NextCategory]_vars

\* C15: add_category always returns the updated list: with new_category once
\* more than before when it was absent, and the unchanged list (not a missing
\* value) when it was present.
C15_ReturnsList ==
    cat_call # None
    => /\ cat_ret.kind = "return"
       /\ cat_ret.value = categories
       /\ IF InList(cat_call.new_category, cat_call.before)
          THEN categories = cat_call.before
          ELSE /\ Len(categories) = Len(cat_call.before) + 1
               /\ Count(categories, cat_call.new_category)
                     = Count(cat_call.before, cat_call.new_category) + 1

----------------------------------------------------------------------------
(* Account and CheckingAccount (src/src/account.py) *)

\* most transactions an account holds
MaxTransactions == 3

\* the transactions handed to an account: an ID, which several may share, and
\* a signed amount
AccountTransactions ==
    [transaction_id : {"tx1", "tx2"}, amount : {Int2F(-3), Int2F(-1), Int2F(2)}]

InitialBalances == {Int2F(-3), Zero, Int2F(1)}

OverdraftLimits == {Int2F(1), Int2F(2)}

True == [kind |-> "return", value |-> TRUE]

False == [kind |-> "return", value |-> FALSE]

\* Account.add_transaction: append, then add the amount to the balance
Account_add_transaction(list, bal, transaction) ==
    [transaction_list |-> Append(list, transaction),
     balance |-> Add(bal, transaction.amount),
     returned |-> ReturnNone]

\* CheckingAccount.add_transaction: rejected when the balance would fall
\* below -overdraft_limit
CheckingAccount_add_transaction(list, bal, limit, transaction) ==
    IF Lt(Add(bal, transaction.amount), Neg(limit))
    THEN [transaction_list |-> list, balance |-> bal, returned |-> ReturnNone]
    ELSE Account_add_transaction(list, bal, transaction)

RemoveAt(list, i) == SubSeq(list, 1, i - 1) \o SubSeq(list, i + 1, Len(list))

RECURSIVE SelectOtherIds(_, _)
SelectOtherIds(list, transaction_id) ==
    IF Len(list) = 0 THEN <<>>
    ELSE (IF list[1].transaction_id = transaction_id THEN <<>> ELSE <<list[1]>>)
         \o SelectOtherIds(Tail(list), transaction_id)

\* a removal that deletes every transaction with the ID and subtracts the
\* amount of the first
remove_transaction_all(list, bal, transaction_id) ==
    IF \E i \in 1..Len(list) : list[i].transaction_id = transaction_id
    THEN LET i == CHOOSE k \in 1..Len(list) :
                     /\ list[k].transaction_id = transaction_id
                     /\ \A j \in 1..(k - 1) : list[j].transaction_id # transaction_id
         IN  [transaction_list |-> SelectOtherIds(list, transaction_id),
              balance |-> Sub(bal, list[i].amount),
              returned |-> True]
    ELSE [transaction_list |-> list, balance |-> bal, returned |-> False]

\* Account.remove_transaction: the first transaction with the ID is subtracted
\* from the balance and deleted, and the loop ends
remove_transaction(list, bal, transaction_id) ==
    IF \E i \in 1..Len(list) : list[i].transaction_id = transaction_id
    THEN LET i == CHOOSE k \in 1..Len(list) :
                     /\ list[k].transaction_id = transaction_id
                     /\ \A j \in 1..(k - 1) : list[j].transaction_id # transaction_id
         IN  [transaction_list |-> RemoveAt(list, i),
              balance |-> Sub(bal, list[i].amount),
              returned |-> True]
    ELSE [transaction_list |-> list, balance |-> bal, returned |-> False]

otherThanAccount == <<analyzerVars, transactionVars, categoryVars, portfolioVars>>

\* Account(name, type, initial_balance) or
\* CheckingAccount(name, initial_balance, overdraft_limit)
InitAccount ==
    /\ cls \in {"Account", "CheckingAccount"}
    /\ initial_balance \in InitialBalances
    /\ balance = initial_balance
    /\ overdraft_limit \in (IF cls = "CheckingAccount" THEN OverdraftLimits ELSE {None})
    /\ transaction_list = <<>>
    /\ acct_call = None
    /\ acct_ret = None
    /\ AnalyzerUnused /\ TransactionUnused /\ CategoryUnused /\ PortfolioUnused

AddTransaction ==
    /\ Len(transaction_list) < MaxTransactions
    /\ \E transaction \in AccountTransactions :
          LET out == IF cls = "CheckingAccount"
                     THEN CheckingAccount_add_transaction(transaction_list, balance,
                                                          overdraft_limit, transaction)
                     ELSE Account_add_transaction(transaction_list, balance, transaction)
          IN  /\ acct_call' = [op |-> "add_transaction", transaction |-> transaction,
                               list_before |-> transaction_list,
                               balance_before |-> balance]
              /\ transaction_list' = out.transaction_list
              /\ balance' = out.balance
              /\ acct_ret' = out.returned
    /\ UNCHANGED <<cls, initial_balance, overdraft_limit>>
    /\ UNCHANGED otherThanAccount

RemoveTransaction ==
    /\ \E transaction_id \in {"tx1", "tx2", "tx3"} :
          LET out == remove_transaction(transaction_list, balance, transaction_id)
          IN  /\ acct_call' = [op |-> "remove_transaction",
                               transaction_id |-> transaction_id,
                               list_before |-> transaction_list,
                               balance_before |-> balance]
              /\ transaction_list' = out.transaction_list
              /\ balance' = out.balance
              /\ acct_ret' = out.returned
    /\ UNCHANGED <<cls, initial_balance, overdraft_limit>>
    /\ UNCHANGED otherThanAccount

NextAccount ==
    \/ AddTransaction
    \/ RemoveTransaction

SpecAccount == InitAccount /\ [][NextAccount]_vars

SumAmounts(list) == SumSeq([i \in 1..Len(list) |-> list[i].amount])

HasId(list, transaction_id) == \E i \in 1..Len(list) : list[i].transaction_id = transaction_id

\* C16: after any sequence of add_transaction and remove_transaction calls the
\* balance is the initial balance plus the amounts of the transactions in
\* transaction_list; a successful remove_transaction deletes exactly one
\* transaction, and one of an absent ID returns False.
C16_BalanceMatchesList ==
    cls # "unused"
    => /\ balance = Add(initial_balance, SumAmounts(transaction_list))
       /\ (acct_call # None /\ acct_call.op = "remove_transaction")
          => /\ acct_ret = False <=> ~HasId(acct_call.list_before, acct_call.transaction_id)
             /\ acct_ret = False => transaction_list = acct_call.list_before
             /\ acct_ret = True =>
                   \E i \in 1..Len(acct_call.list_before) :
                      /\ acct_call.list_before[i].transaction_id = acct_call.transaction_id
                      /\ transaction_list = RemoveAt(acct_call.list_before, i)

C16_Witness ==
    /\ cls = "Account"
    /\ acct_call # None
    /\ acct_call.op = "remove_transaction"
    /\ acct_call.transaction_id = "tx1"
    /\ Len(acct_call.list_before) = 3
    /\ \A i \in 1..3 : acct_call.list_before[i].transaction_id = "tx1"
    /\ acct_ret = True
    /\ Len(transaction_list) = 2
    /\ balance = Add(initial_balance, SumAmounts(transaction_list))

\* C17: for a CheckingAccount created with initial_balance >= -overdraft_limit,
\* the balance is never below -overdraft_limit after any sequence of
\* add_transaction and remove_transaction calls, and a rejected add_transaction
\* leaves the balance and transaction_list unchanged.
C17_NeverBelowOverdraft ==
    (cls = "CheckingAccount" /\ Le(Neg(overdraft_limit), initial_balance))
    => /\ Le(Neg(overdraft_limit), balance)
       /\ (/\ acct_call # None
           /\ acct_call.op = "add_transaction"
           /\ Lt(Add(acct_call.balance_before, acct_call.transaction.amount),
                 Neg(overdraft_limit)))
          => /\ balance = acct_call.balance_before
             /\ transaction_list = acct_call.list_before

----------------------------------------------------------------------------
(* InvestmentPortfolio (src/src/portfolio.py) *)

\* symbols are arbitrary strings; "Cash" is the key get_asset_allocation uses
\* for the cash balance
Symbols == {"MSFT", "GOOGL", "Cash"}

ShareCounts == {Zero, Int2F(1), Int2F(2)}

PurchasePrices == {Int2F(-5), Int2F(5)}

\* update_prices takes any price
MarketPrices == {Int2F(-5), Zero, Int2F(10)}

CashBalances == {Zero, Int2F(5)}

PurchaseDates == {"2022-01-15"}

\* Holding.__init__
Holding(symbol, shares, purchase_price, purchase_date) ==
    IF Le(shares, Zero) \/ Le(purchase_price, Zero)
    THEN Raise("ValueError", "Shares and purchase price must be positive.")
    ELSE Return([symbol |-> symbol,
                 shares |-> shares,
                 purchase_price |-> purchase_price,
                 current_price |-> purchase_price,
                 purchase_date |-> purchase_date])

\* Holding.get_value
get_value(self) == Mul(self.shares, self.current_price)

\* InvestmentPortfolio.add_holding: the holdings after the call and its outcome
add_holding(self_holdings, symbol, shares, purchase_price, purchase_date) ==
    IF symbol \in DOMAIN self_holdings
    THEN [holdings |-> self_holdings, returned |-> ReturnNone]
    ELSE LET new_holding == Holding(symbol, shares, purchase_price, purchase_date)
         IN  IF new_holding.kind = "raise"
             THEN [holdings |-> self_holdings, returned |-> new_holding]
             ELSE [holdings |-> [s \in DOMAIN self_holdings \cup {symbol} |->
                                    IF s = symbol THEN new_holding.value
                                    ELSE self_holdings[s]],
                   returned |-> ReturnNone]

\* InvestmentPortfolio.remove_holding
remove_holding(self_holdings, symbol) ==
    IF symbol \in DOMAIN self_holdings
    THEN [holdings |-> [s \in DOMAIN self_holdings \ {symbol} |-> self_holdings[s]],
          returned |-> Return(self_holdings[symbol])]
    ELSE [holdings |-> self_holdings, returned |-> ReturnNone]

\* InvestmentPortfolio.update_prices: only held symbols are updated
update_prices(self_holdings, new_prices) ==
    [s \in DOMAIN self_holdings |->
        IF s \in DOMAIN new_prices
        THEN [self_holdings[s] EXCEPT !.current_price = new_prices[s]]
        ELSE self_holdings[s]]

\* InvestmentPortfolio.calculate_total_value
calculate_total_value(self_holdings, self_cash_balance) ==
    Add(SumValues([s \in DOMAIN self_holdings |-> get_value(self_holdings[s])],
                  DOMAIN self_holdings),
        self_cash_balance)

\* InvestmentPortfolio.get_asset_allocation: allocation['Cash'] is assigned
\* after the holdings' entries
get_asset_allocation(self_holdings, self_cash_balance) ==
    LET total_value == calculate_total_value(self_holdings, self_cash_balance)
        allocation == [s \in DOMAIN self_holdings |->
                          Mul(Div(get_value(self_holdings[s]), total_value), Int2F(100))]
    IN  IF total_value = Zero THEN EmptyDict
        ELSE IF Lt(Zero, self_cash_balance)
        THEN [s \in DOMAIN allocation \cup {"Cash"} |->
                 IF s = "Cash"
                 THEN Mul(Div(self_cash_balance, total_value), Int2F(100))
                 ELSE allocation[s]]
        ELSE allocation

otherThanPortfolio == <<analyzerVars, transactionVars, categoryVars, accountVars>>

\* InvestmentPortfolio(name, cash_balance) with cash_balance >= 0
InitPortfolio ==
    /\ holdings = EmptyDict
    /\ cash_balance \in CashBalances
    /\ pf_call = None
    /\ pf_ret = None
    /\ AnalyzerUnused /\ TransactionUnused /\ CategoryUnused /\ AccountUnused

AddHolding ==
    /\ \E symbol \in Symbols, shares \in ShareCounts, purchase_price \in PurchasePrices,
          purchase_date \in PurchaseDates :
          LET out == add_holding(holdings, symbol, shares, purchase_price, purchase_date)
          IN  /\ pf_call' = [op |-> "add_holding", symbol |-> symbol]
              /\ holdings' = out.holdings
              /\ pf_ret' = out.returned
    /\ UNCHANGED cash_balance
    /\ UNCHANGED otherThanPortfolio

RemoveHolding ==
    /\ \E symbol \in Symbols :
          LET out == remove_holding(holdings, symbol)
          IN  /\ pf_call' = [op |-> "remove_holding", symbol |-> symbol]
              /\ holdings' = out.holdings
              /\ pf_ret' = out.returned
    /\ UNCHANGED cash_balance
    /\ UNCHANGED otherThanPortfolio

UpdatePrices ==
    /\ \E K \in SUBSET Symbols : \E new_prices \in [K -> MarketPrices] :
          /\ pf_call' = [op |-> "update_prices", symbols |-> K]
          /\ holdings' = update_prices(holdings, new_prices)
          /\ pf_ret' = ReturnNone
    /\ UNCHANGED cash_balance
    /\ UNCHANGED otherThanPortfolio

GetAssetAllocation ==
    /\ pf_call' = [op |-> "get_asset_allocation"]
    /\ pf_ret' = Return(get_asset_allocation(holdings, cash_balance))
    /\ UNCHANGED <<holdings, cash_balance>>
    /\ UNCHANGED otherThanPortfolio

NextPortfolio ==
    \/ AddHolding
    \/ RemoveHolding
    \/ UpdatePrices
    \/ GetAssetAllocation

SpecPortfolio == InitPortfolio /\ [][NextPortfolio]_vars

\* C18: after any sequence of add_holding, remove_holding and update_prices
\* calls, get_asset_allocation returns an empty mapping, only when the total
\* value is 0, or percentages that sum to 100 with a 'Cash' entry exactly when
\* cash_balance > 0.
C18_AllocationSumsTo100 ==
    (pf_call # None /\ pf_call.op = "get_asset_allocation")
    => /\ pf_ret.kind = "return"
       /\ IF DOMAIN pf_ret.value = {}
          THEN calculate_total_value(holdings, cash_balance) = Zero
          ELSE /\ SumValues(pf_ret.value, DOMAIN pf_ret.value) = Int2F(100)
               /\ "Cash" \in DOMAIN pf_ret.value <=> Lt(Zero, cash_balance)

====
